---- MODULE Spec2Model ----
(***************************************************************************)
(* Model of the decoding core of BossNet (memn2n): the step-wise decode    *)
(* driver dynamic_decode, the step decoder BasicDecoder and the recurrent  *)
(* step wrapper AttentionWrapper.                                          *)
(*                                                                         *)
(* A [batch] tensor is a function on Batch. A TensorArray is the record    *)
(* [kind |-> "TensorArray", elems |-> f] with f a function on the indices  *)
(* written so far; stacking it gives [kind |-> "Tensor", elems |-> g] with *)
(* g a function on 0..T-1 (time-major) of [batch] tensors.                 *)
(* The numeric results of the recurrent cell, the attention scorer and the *)
(* helper are external to the repository: a step draws, per batch element, *)
(* one token that stands for them.                                         *)
(***************************************************************************)
EXTENDS Integers, Sequences, FiniteSets, TLC

\* ---------------------------------------------------------------- bounds
BatchSize == 2
MaxIter == 3
MaxSteps == 2
MaxMechanisms == 2
MaxSentences == 2
MaxWords == 2
MaxStory == 3
MaxBatches == 2

\* ---------------------------------------------------- program constants
PAD_INDEX == 0
UNK_INDEX == 1
GO_SYMBOL_INDEX == 2
EOS_INDEX == 3

Batch == 1..BatchSize

\* The token a step yields for one batch element (the helper's sample id).
Tokens == {UNK_INDEX, EOS_INDEX}

\* maximum_iterations: <<>> is None, <<m>> is the scalar m.
MaxIterChoices == {<<>>} \cup {<<m>> : m \in (-1)..MaxIter}

\* A maximum_iterations that is no scalar: the vector <<m, n>>.
NonScalarChoices == {<<m, n>> : m, n \in 0..1}

VARIABLES
  maximum_iterations,   \* argument of dynamic_decode
  impute_finished,      \* argument of dynamic_decode
  output_time_major,    \* argument of dynamic_decode
  has_finalize,         \* whether decoder.finalize is implemented
  alignment_history,    \* AttentionWrapper._alignment_history
  pc,                   \* "start", "loop", "done"
  time,                 \* loop variable
  outputs_ta,           \* loop variable: BasicDecoderOutput of TensorArrays
  state,                \* loop variable: AttentionWrapperState
  inputs,               \* loop variable
  finished,             \* loop variable
  sequence_lengths,     \* loop variable
  attention,            \* loop variable: TensorArray of word alignments
  p_gens,               \* loop variable: TensorArray of copy gates
  init_log,             \* history: the results of the calls of decoder.initialize
  step_log,             \* history: the calls of decoder.step and their results
  result,               \* <<>> until dynamic_decode returns, then <<r>>
  observed,             \* two-run comparison: the element compared
  runs,                 \* two-run comparison: <<>> or the loop variables
                        \* time, finished, sequence_lengths of runs 1 and 2
  wrapper,              \* an AttentionWrapper stepped on its own, or <<>>
  construction,         \* a constructor call and its outcome, or <<>>
  mechanism,            \* a CustomAttention and its scoring call, or <<>>
  data                  \* a story and its vectorization, or <<>>

vars == <<maximum_iterations, impute_finished, output_time_major, has_finalize,
          alignment_history, pc, time, outputs_ta, state, inputs, finished,
          sequence_lengths, attention, p_gens, init_log, step_log, result,
          observed, runs, wrapper, construction, mechanism, data>>

aux == <<wrapper, construction, mechanism, data>>

config == <<maximum_iterations, impute_finished, output_time_major,
            has_finalize, alignment_history>>

\* ------------------------------------------------------------ TensorArray
\* TensorArray(size=0, dynamic_size=True)
EmptyTA == [kind |-> "TensorArray", elems |-> [j \in {} |-> 0]]

SetMax(S) == CHOOSE x \in S : \A y \in S : y <= x

ta_size(ta) == IF DOMAIN ta.elems = {} THEN 0 ELSE SetMax(DOMAIN ta.elems) + 1

\* Variant: every write goes to index 0.
ta_write_first(ta, index, value) ==
  [ta EXCEPT !.elems = [j \in (DOMAIN ta.elems) \cup {0} |->
                          IF j = 0 THEN value ELSE ta.elems[j]]]

\* ta.write(index, value)
ta_write(ta, index, value) ==
  [ta EXCEPT !.elems = [j \in (DOMAIN ta.elems) \cup {index} |->
                          IF j = index THEN value ELSE ta.elems[j]]]

\* ta.stack(): the dense tensor of the entries 0..size-1, in index order
ta_stack(ta) ==
  [kind |-> "Tensor", elems |-> [t \in 0..(ta_size(ta) - 1) |-> ta.elems[t]]]

\* rnn._transpose_batch_time: [time, batch] -> [batch, time]
transpose_batch_time(x) ==
  [x EXCEPT !.elems = [i \in Batch |-> [t \in DOMAIN x.elems |-> x.elems[t][i]]]]

\* ------------------------------------------------------ AttentionWrapper
\* Variant: the time of the zero state is one.
zero_state_from_one(history_on) ==
  [cell_state |-> [i \in Batch |-> 0],
   time |-> 1,
   attention |-> [i \in Batch |-> 0],
   alignments |-> [i \in Batch |-> 0],
   alignment_history |-> IF history_on THEN <<EmptyTA>> ELSE <<>>]

\* AttentionWrapper.zero_state
zero_state(history_on) ==
  [cell_state |-> [i \in Batch |-> 0],
   time |-> 0,
   attention |-> [i \in Batch |-> 0],
   alignments |-> [i \in Batch |-> 0],
   alignment_history |-> IF history_on THEN <<EmptyTA>> ELSE <<>>]

\* AttentionWrapperState.clone(cell_state=...)
clone_cell_state(st, cs) == [st EXCEPT !.cell_state = cs]

\* The default cell_input_fn: concat([inputs, attention], -1)
cell_input_fn(inp, att) == [i \in Batch |-> <<inp[i], att[i]>>]

\* linear([attention, cell_state, cell_inputs], 1, True) under a sigmoid:
\* kept as the triple of its arguments.
copy_gate(att, cs, cin) == [i \in Batch |-> <<att[i], cs[i], cin[i]>>]

\* Variant: the alignment is written at the index after the state's time.
call_write_next(inp, st, history_on, tok) ==
  LET cell_inputs == cell_input_fn(inp, st.attention)
      history == IF history_on
                 THEN <<ta_write(st.alignment_history[1], st.time + 1, tok)>>
                 ELSE <<>>
  IN [output |-> <<tok, tok, copy_gate(tok, st.cell_state, cell_inputs)>>,
      next_state |-> [cell_state |-> tok, time |-> st.time + 1, attention |-> tok,
                      alignments |-> tok, alignment_history |-> history]]

\* Variant: the copy gate reads the cell state produced at this step.
call_gate_next_state(inp, st, history_on, tok) ==
  LET cell_inputs == cell_input_fn(inp, st.attention)
      history == IF history_on
                 THEN <<ta_write(st.alignment_history[1], st.time, tok)>>
                 ELSE <<>>
  IN [output |-> <<tok, tok, copy_gate(tok, tok, cell_inputs)>>,
      next_state |-> [cell_state |-> tok, time |-> st.time + 1, attention |-> tok,
                      alignments |-> tok, alignment_history |-> history]]

\* AttentionWrapper.call in cell-output mode; tok stands for the results of
\* the wrapped cell and of the attention mechanism.
call(inp, st, history_on, tok) ==
  LET cell_inputs == cell_input_fn(inp, st.attention)
      cell_state == st.cell_state
      cell_output == tok
      next_cell_state == tok
      alignments == tok
      att == tok
      history == IF history_on
                 THEN <<ta_write(st.alignment_history[1], st.time, alignments)>>
                 ELSE <<>>
      next_state == [cell_state |-> next_cell_state,
                     time |-> st.time + 1,
                     attention |-> att,
                     alignments |-> alignments,
                     alignment_history |-> history]
  IN [output |-> <<cell_output, alignments,
                   copy_gate(att, cell_state, cell_inputs)>>,
      next_state |-> next_state]

\* ---------------------------------------------------------- BasicDecoder
\* BasicDecoder.step: the helper samples the token, feeds it back as the
\* next input and reports an element finished when it sampled EOS_INDEX.
step(t, inp, st, history_on, tok) ==
  LET c == call(inp, st, history_on, tok)
      cell_outputs == c.output[1]
      sample_ids == tok
  IN [outputs |-> [rnn_output |-> cell_outputs, sample_id |-> sample_ids],
      attention |-> c.output[2],
      p_gens |-> c.output[3],
      next_state |-> c.next_state,
      next_inputs |-> sample_ids,
      finished |-> [i \in Batch |-> tok[i] = EOS_INDEX]]

\* -------------------------------------------------------- dynamic_decode
zero_outputs == [rnn_output |-> [i \in Batch |-> 0],
                 sample_id |-> [i \in Batch |-> 0]]

HasMax(mi) == mi # <<>>

\* maximum_iterations.get_shape().ndims
max_iter_ndims(mi) == Len(mi) - 1

\* Variant: the rank of maximum_iterations is not looked at.
not_scalar_unchecked(mi) == FALSE

\* maximum_iterations is given and its rank is not 0
not_scalar(mi) == HasMax(mi) /\ max_iter_ndims(mi) # 0

\* Variant: the flags of the helper alone, the maximum ignored.
initial_finished_helper_only(helper_finished, mi) ==
  [i \in Batch |-> helper_finished[i]]

\* initial_finished: the helper's flags or-ed with 0 >= maximum_iterations
initial_finished(helper_finished, mi) ==
  [i \in Batch |-> helper_finished[i] \/ (HasMax(mi) /\ 0 >= mi[1])]

\* condition of the while loop
condition(fin) == ~(\A i \in Batch : fin[i])

\* Variant: the maximum is not or-ed in.
next_finished_without_max(decoder_finished, fin, t, mi) ==
  [i \in Batch |-> decoder_finished[i] \/ fin[i]]

\* Variant: the previous flags are not or-ed in.
next_finished_decoder_only(decoder_finished, fin, t, mi) ==
  [i \in Batch |-> decoder_finished[i] \/ (HasMax(mi) /\ t + 1 >= mi[1])]

\* Variant: one element finishing finishes the whole batch.
next_finished_any(decoder_finished, fin, t, mi) ==
  [i \in Batch |-> (\E j \in Batch : decoder_finished[j] \/ fin[j])
                   \/ (HasMax(mi) /\ t + 1 >= mi[1])]

next_finished(decoder_finished, fin, t, mi) ==
  [i \in Batch |-> (decoder_finished[i] \/ fin[i])
                   \/ (HasMax(mi) /\ t + 1 >= mi[1])]

\* Variant: the length written is the step index, not the number of steps.
next_sequence_lengths_index(fin, nfin, t, sl) ==
  [i \in Batch |-> IF ~fin[i] /\ nfin[i] THEN t ELSE sl[i]]

\* Variant: the length is rewritten at every step of a finished element.
next_sequence_lengths_rewrite(fin, nfin, t, sl) ==
  [i \in Batch |-> IF nfin[i] THEN t + 1 ELSE sl[i]]

next_sequence_lengths(fin, nfin, t, sl) ==
  [i \in Batch |-> IF ~fin[i] /\ nfin[i] THEN t + 1 ELSE sl[i]]

\* Variant: the raw output is emitted whatever the flags.
emit_raw(impute, fin, next_outputs) == next_outputs

\* array_ops.where(finished, zero, out) on each component of the output
emit(impute, fin, next_outputs) ==
  IF impute
  THEN [rnn_output |-> [i \in Batch |-> IF fin[i] THEN zero_outputs.rnn_output[i]
                                         ELSE next_outputs.rnn_output[i]],
        sample_id |-> [i \in Batch |-> IF fin[i] THEN zero_outputs.sample_id[i]
                                        ELSE next_outputs.sample_id[i]]]
  ELSE next_outputs

\* _maybe_copy_state on a [batch, ...] tensor field
copy_through(fin, new, cur) == [i \in Batch |-> IF fin[i] THEN cur[i] ELSE new[i]]

\* Variant: only the cell state is held, attention and alignments are not.
maybe_copy_state_cell_only(impute, fin, decoder_state, cur) ==
  IF impute
  THEN [decoder_state EXCEPT
          !.cell_state = copy_through(fin, decoder_state.cell_state, cur.cell_state)]
  ELSE decoder_state

\* nest.map_structure(_maybe_copy_state, decoder_state, state): TensorArrays
\* and scalars pass through, the other fields are held for finished elements
maybe_copy_state(impute, fin, decoder_state, cur) ==
  IF impute
  THEN [cell_state |-> copy_through(fin, decoder_state.cell_state, cur.cell_state),
        time |-> decoder_state.time,
        attention |-> copy_through(fin, decoder_state.attention, cur.attention),
        alignments |-> copy_through(fin, decoder_state.alignments, cur.alignments),
        alignment_history |-> decoder_state.alignment_history]
  ELSE decoder_state

\* decoder.finalize of a decoder that provides one: pads the outputs past each
\* element's sequence length with EOS_INDEX and resets the attention of the state.
finalize(outs, st, sl) ==
  [outputs |-> [rnn_output |-> outs.rnn_output,
                sample_id |-> [outs.sample_id EXCEPT !.elems =
                                 [t \in DOMAIN outs.sample_id.elems |->
                                    [i \in Batch |-> IF t >= sl[i] THEN EOS_INDEX
                                                     ELSE outs.sample_id.elems[t][i]]]]],
   state |-> [st EXCEPT !.attention = [i \in Batch |-> 0]]]

\* Variant: the results of finalize are discarded.
finalize_pass_discard(provided, outs, st, sl) ==
  [outputs |-> outs, state |-> st,
   calls |-> IF provided
             THEN <<[outputs |-> outs, state |-> st, sequence_lengths |-> sl]>>
             ELSE <<>>]

\* try: decoder.finalize(final_outputs, final_state, final_sequence_lengths)
\* except NotImplementedError: pass
\* calls records the arguments finalize was called with.
finalize_pass(provided, outs, st, sl) ==
  IF provided
  THEN LET f == finalize(outs, st, sl)
       IN [outputs |-> f.outputs, state |-> f.state,
           calls |-> <<[outputs |-> outs, state |-> st, sequence_lengths |-> sl]>>]
  ELSE [outputs |-> outs, state |-> st, calls |-> <<>>]

stack_outputs(ota) ==
  [rnn_output |-> ta_stack(ota.rnn_output), sample_id |-> ta_stack(ota.sample_id)]

\* Variant: the test of output_time_major is inverted.
transpose_outputs_flipped(time_major, outs) ==
  IF time_major
  THEN [rnn_output |-> transpose_batch_time(outs.rnn_output),
        sample_id |-> transpose_batch_time(outs.sample_id)]
  ELSE outs

transpose_outputs(time_major, outs) ==
  IF ~time_major
  THEN [rnn_output |-> transpose_batch_time(outs.rnn_output),
        sample_id |-> transpose_batch_time(outs.sample_id)]
  ELSE outs

\* ---------------------------------------------------------------- actions
InitDecode ==
  /\ maximum_iterations \in MaxIterChoices \cup NonScalarChoices
  /\ impute_finished \in BOOLEAN
  /\ output_time_major \in BOOLEAN
  /\ has_finalize \in BOOLEAN
  /\ alignment_history \in BOOLEAN
  /\ pc = "start"
  /\ time = 0
  /\ outputs_ta = [rnn_output |-> EmptyTA, sample_id |-> EmptyTA]
  /\ state = zero_state(alignment_history)
  /\ inputs = [i \in Batch |-> GO_SYMBOL_INDEX]
  /\ finished = [i \in Batch |-> FALSE]
  /\ sequence_lengths = [i \in Batch |-> 0]
  /\ attention = EmptyTA
  /\ p_gens = EmptyTA
  /\ init_log = <<>>
  /\ step_log = <<>>
  /\ result = <<>>

AuxIdle == wrapper = <<>> /\ construction = <<>> /\ mechanism = <<>> /\ data = <<>>

Init == InitDecode /\ observed = 1 /\ runs = <<>> /\ AuxIdle

\* dynamic_decode up to the while loop: decoder.initialize() and the initial
\* loop variables. The helper's initial flags and the encoder state cloned
\* into the wrapper's zero state are inputs.
Initialize ==
  /\ pc = "start"
  /\ ~not_scalar(maximum_iterations)
  /\ \E helper_finished \in [Batch -> BOOLEAN], enc \in Tokens :
       LET initial_state == clone_cell_state(zero_state(alignment_history),
                                             [i \in Batch |-> enc])
           initial_inputs == [i \in Batch |-> GO_SYMBOL_INDEX]
       IN /\ finished' = initial_finished(helper_finished, maximum_iterations)
          /\ state' = initial_state
          /\ inputs' = initial_inputs
          /\ init_log' = Append(init_log,
                                [finished |-> helper_finished,
                                 inputs |-> initial_inputs,
                                 state |-> initial_state])
  /\ sequence_lengths' = [i \in Batch |-> 0]
  /\ time' = 0
  /\ outputs_ta' = [rnn_output |-> EmptyTA, sample_id |-> EmptyTA]
  /\ attention' = EmptyTA
  /\ p_gens' = EmptyTA
  /\ pc' = "loop"
  /\ UNCHANGED <<config, step_log, result, observed, runs, aux>>

\* raise ValueError("maximum_iterations must be a scalar")
RaiseNotScalar ==
  /\ pc = "start"
  /\ not_scalar(maximum_iterations)
  /\ pc' = "error"
  /\ UNCHANGED <<config, time, outputs_ta, state, inputs, finished,
                 sequence_lengths, attention, p_gens, init_log, step_log,
                 result, observed, runs, aux>>

\* One iteration of the while loop: condition holds, body runs.
Body ==
  /\ pc = "loop"
  /\ condition(finished)
  /\ \/ time < MaxSteps
     \/ HasMax(maximum_iterations) /\ time <= maximum_iterations[1]
  /\ \E tok \in [Batch -> Tokens] :
       LET r == step(time, inputs, state, alignment_history, tok)
           nfin == next_finished(r.finished, finished, time, maximum_iterations)
           em == emit(impute_finished, finished, r.outputs)
       IN /\ finished' = nfin
          /\ sequence_lengths' =
               next_sequence_lengths(finished, nfin, time, sequence_lengths)
          /\ state' = maybe_copy_state(impute_finished, finished, r.next_state, state)
          /\ outputs_ta' =
               [rnn_output |-> ta_write(outputs_ta.rnn_output, time, em.rnn_output),
                sample_id |-> ta_write(outputs_ta.sample_id, time, em.sample_id)]
          /\ attention' = ta_write(attention, time, r.attention)
          /\ p_gens' = ta_write(p_gens, time, r.p_gens)
          /\ inputs' = r.next_inputs
          /\ step_log' = Append(step_log,
                                [time |-> time, inputs |-> inputs, state |-> state,
                                 finished_before |-> finished, result |-> r])
  /\ time' = time + 1
  /\ UNCHANGED <<config, pc, init_log, result, observed, runs, aux>>

\* The loop has exited: stack, finalize, transpose, return.
Return ==
  /\ pc = "loop"
  /\ ~condition(finished)
  /\ LET final_outputs == stack_outputs(outputs_ta)
         f == finalize_pass(has_finalize, final_outputs, state, sequence_lengths)
     IN result' = <<[final_outputs |-> transpose_outputs(output_time_major, f.outputs),
                     final_state |-> f.state,
                     final_sequence_lengths |-> sequence_lengths,
                     final_attention |-> attention,
                     final_p_gens |-> p_gens,
                     finalize_calls |-> f.calls]>>
  /\ pc' = "done"
  /\ UNCHANGED <<config, time, outputs_ta, state, inputs, finished,
                 sequence_lengths, attention, p_gens, init_log, step_log,
                 observed, runs, aux>>

Next == RaiseNotScalar \/ Initialize \/ Body \/ Return

Spec == Init /\ [][Next]_vars

FairSpec == Spec /\ WF_vars(Next)

\* ------------------------------------------------- two runs side by side
\* Two runs of dynamic_decode with the same maximum_iterations. The helper's
\* flags and the decoder's finished signals of the two runs agree on the
\* observed element and are free on the others. A run iterates while its
\* own loop condition holds.
decode == <<pc, time, outputs_ta, state, inputs, finished, sequence_lengths,
           attention, p_gens, init_log, step_log, result>>

\* The arguments other than maximum_iterations play no part in the flags and
\* have their default values.
PairInit ==
  /\ InitDecode
  /\ maximum_iterations \in MaxIterChoices
  /\ ~impute_finished /\ ~output_time_major /\ ~has_finalize /\ ~alignment_history
  /\ observed \in Batch
  /\ runs = <<>>
  /\ AuxIdle

\* The part of the loop body that computes finished and sequence_lengths.
RunBody(r, tok) ==
  LET decoder_finished == step(r.time, inputs, state, alignment_history, tok).finished
      nfin == next_finished(decoder_finished, r.finished, r.time, maximum_iterations)
  IN [time |-> r.time + 1,
      finished |-> nfin,
      sequence_lengths |->
        next_sequence_lengths(r.finished, nfin, r.time, r.sequence_lengths)]

RunCanStep(r) ==
  /\ condition(r.finished)
  /\ \/ r.time < MaxSteps
     \/ HasMax(maximum_iterations) /\ r.time <= maximum_iterations[1]

PairInitialize ==
  /\ runs = <<>>
  /\ \E h1, h2 \in [Batch -> BOOLEAN] :
       /\ h1[observed] = h2[observed]
       /\ runs' = <<[time |-> 0,
                     finished |-> initial_finished(h1, maximum_iterations),
                     sequence_lengths |-> [i \in Batch |-> 0]],
                    [time |-> 0,
                     finished |-> initial_finished(h2, maximum_iterations),
                     sequence_lengths |-> [i \in Batch |-> 0]]>>
  /\ UNCHANGED <<config, decode, observed, aux>>

\* A common iteration: both loops run their body.
PairBodyBoth ==
  /\ runs # <<>>
  /\ RunCanStep(runs[1]) /\ RunCanStep(runs[2])
  /\ \E tok1, tok2 \in [Batch -> Tokens] :
       /\ tok1[observed] = tok2[observed]
       /\ runs' = <<RunBody(runs[1], tok1), RunBody(runs[2], tok2)>>
  /\ UNCHANGED <<config, decode, observed, aux>>

\* One loop has exited, the other runs its body.
PairBodyOne ==
  /\ runs # <<>>
  /\ \E n \in {1, 2} :
       /\ RunCanStep(runs[n]) /\ ~condition(runs[3 - n].finished)
       /\ \E tok \in [Batch -> Tokens] :
            runs' = [runs EXCEPT ![n] = RunBody(runs[n], tok)]
  /\ UNCHANGED <<config, decode, observed, aux>>

PairNext == PairInitialize \/ PairBodyBoth \/ PairBodyOne

PairSpec == PairInit /\ [][PairNext]_vars

\* --------------------------------------------- AttentionWrapper on its own
\* The decode variables at rest while another part of the program is studied.
DecodeIdle ==
  /\ InitDecode
  /\ maximum_iterations = <<>>
  /\ ~impute_finished /\ ~output_time_major /\ ~has_finalize /\ ~alignment_history
  /\ observed = 1
  /\ runs = <<>>

\* Memory batch sizes of an attention mechanism: that of the decoder batch,
\* or one more (a memory that was not tiled to the decoder batch).
MemoryBatchChoices == {BatchSize, BatchSize + 1}

MechanismLists ==
  UNION {[1..n -> MemoryBatchChoices] : n \in 1..MaxMechanisms}

\* AttentionWrapper.__init__: the fields a call reads.
AttentionWrapper(output_attention, history_on, memory_batch) ==
  [output_attention |-> output_attention,
   alignment_history |-> history_on,
   memory_batch |-> memory_batch,
   state |-> zero_state(history_on),
   calls |-> <<>>,
   failed |-> FALSE,
   cloned |-> <<>>,
   stepped |-> <<>>]

\* Variant: only the first attention mechanism is compared.
batch_size_checks_first_only(batch_size, memory_batch) ==
  [j \in DOMAIN memory_batch |-> j > 1 \/ batch_size = memory_batch[j]]

\* AttentionWrapper._batch_size_checks: one assert_equal per mechanism.
batch_size_checks(batch_size, memory_batch) ==
  [j \in DOMAIN memory_batch |-> batch_size = memory_batch[j]]

\* Variant: the test on the output mode is inverted.
wrapper_output_flipped(output_attention, c) ==
  IF ~output_attention
  THEN [attention |-> c.next_state.attention]
  ELSE [cell_output |-> c.output[1], alignments |-> c.output[2],
        p_gens |-> c.output[3]]

\* The first component returned by AttentionWrapper.call.
wrapper_output(output_attention, c) ==
  IF output_attention
  THEN [attention |-> c.next_state.attention]
  ELSE [cell_output |-> c.output[1], alignments |-> c.output[2],
        p_gens |-> c.output[3]]

\* AttentionWrapper.call evaluated as one step: the cell runs, its output
\* passes the batch size assertions, then the mechanisms score it.
wrapper_call(w, inp, tok) ==
  LET cell_output == tok
      cell_batch_size == Cardinality(DOMAIN cell_output)
      checks == batch_size_checks(cell_batch_size, w.memory_batch)
      c == call(inp, w.state, w.alignment_history, tok)
  IN IF \E j \in DOMAIN checks : ~checks[j]
     THEN [error |-> TRUE, trace |-> <<"cell", "check">>,
           output |-> <<>>, next_state |-> <<>>]
     ELSE [error |-> FALSE, trace |-> <<"cell", "check", "score">>,
           output |-> <<wrapper_output(w.output_attention, c)>>,
           next_state |-> <<c.next_state>>]

WrapInit ==
  /\ DecodeIdle
  /\ construction = <<>> /\ mechanism = <<>> /\ data = <<>>
  /\ \E oa, h \in BOOLEAN : \E mb \in MechanismLists :
       wrapper = AttentionWrapper(oa, h, mb)

\* The value each field takes when a clone overrides it.
CloneOverride ==
  [cell_state |-> [i \in Batch |-> EOS_INDEX],
   attention |-> [i \in Batch |-> UNK_INDEX],
   time |-> MaxIter + 1,
   alignments |-> [i \in Batch |-> GO_SYMBOL_INDEX],
   alignment_history |-> <<ta_write(EmptyTA, 0, [i \in Batch |-> PAD_INDEX])>>]

\* The keyword arguments of a clone: any subset of the fields.
CloneKwargs ==
  {[f \in fs |-> CloneOverride[f]] : fs \in SUBSET DOMAIN CloneOverride}

\* Variant: the fields that are not named are taken from a zero state.
clone_reset(st, kwargs) ==
  [f \in DOMAIN st |->
     IF f \in DOMAIN kwargs THEN kwargs[f] ELSE zero_state(FALSE)[f]]

\* AttentionWrapperState.clone(**kwargs): namedtuple._replace
clone(st, kwargs) ==
  [f \in DOMAIN st |-> IF f \in DOMAIN kwargs THEN kwargs[f] ELSE st[f]]

\* The current state is cloned, before the first call or after it; the
\* clone is a new object next to the state it was made from.
WrapClone ==
  /\ wrapper # <<>>
  /\ ~wrapper.failed
  /\ wrapper.cloned = <<>> /\ wrapper.stepped = <<>>
  /\ Len(wrapper.calls) <= 1
  /\ \E kwargs \in CloneKwargs :
       wrapper' = [wrapper EXCEPT
                     !.cloned = <<[kwargs |-> kwargs,
                                   result |-> clone(wrapper.state, kwargs)]>>]
  /\ UNCHANGED <<config, decode, observed, runs, construction, mechanism, data>>

\* One call of the wrapper on its current state, fed the start symbol and
\* then the previous cell result; a failed call is fatal.
WrapCall ==
  /\ wrapper # <<>>
  /\ ~wrapper.failed
  /\ wrapper.cloned = <<>> /\ wrapper.stepped = <<>>
  /\ Len(wrapper.calls) < MaxIter
  /\ \E tok \in [Batch -> Tokens] :
       LET inp == IF wrapper.calls = <<>>
                  THEN [i \in Batch |-> GO_SYMBOL_INDEX]
                  ELSE wrapper.calls[Len(wrapper.calls)].cell
           r == wrapper_call(wrapper, inp, tok)
       IN wrapper' = [wrapper EXCEPT
                        !.calls = Append(@, [inputs |-> inp, before |-> wrapper.state,
                                             cell |-> tok, result |-> r]),
                        !.state = IF r.error THEN @ ELSE r.next_state[1],
                        !.failed = r.error]
  /\ UNCHANGED <<config, decode, observed, runs, construction, mechanism, data>>

\* BasicDecoder.step around the wrapper w, with no output layer: the cell is
\* called, its output is unpacked into three, the helper samples. A single
\* tensor cannot be unpacked in a graph: iterating it raises a TypeError.
decoder_step(w, t, inp, tok) ==
  LET r == wrapper_call(w, inp, tok)
  IN IF r.error
     THEN [raised |-> "InvalidArgumentError", result |-> <<>>]
     ELSE IF DOMAIN r.output[1] = {"attention"}
     THEN [raised |-> "TypeError", result |-> <<>>]
     ELSE LET cell_outputs == r.output[1].cell_output
              sample_ids == tok
          IN [raised |-> "none",
              result |-> <<[outputs |-> [rnn_output |-> cell_outputs,
                                         sample_id |-> sample_ids],
                            attention |-> r.output[1].alignments,
                            p_gens |-> r.output[1].p_gens,
                            next_state |-> r.next_state[1],
                            next_inputs |-> sample_ids,
                            finished |-> [i \in Batch |-> tok[i] = EOS_INDEX]]>>]

\* A BasicDecoder around the wrapper takes one step from the wrapper's
\* current state, at the start or after one call.
DecoderStep ==
  /\ wrapper # <<>>
  /\ ~wrapper.failed
  /\ wrapper.cloned = <<>> /\ wrapper.stepped = <<>>
  /\ Len(wrapper.calls) <= 1
  /\ \E tok \in [Batch -> Tokens] :
       LET inp == [i \in Batch |-> GO_SYMBOL_INDEX]
       IN wrapper' = [wrapper EXCEPT
                        !.stepped = <<[time |-> wrapper.state.time, inputs |-> inp,
                                       cell |-> tok,
                                       outcome |-> decoder_step(wrapper, wrapper.state.time,
                                                                inp, tok)]>>]
  /\ UNCHANGED <<config, decode, observed, runs, construction, mechanism, data>>

WrapNext == WrapCall \/ WrapClone \/ DecoderStep

WrapSpec == WrapInit /\ [][WrapNext]_vars

\* ------------------------------------------------------------ constructors
\* Objects are records with their class; only the class is tested.
Obj(c) == [class |-> c]

\* rnn_cell_impl._like_rnncell
like_rnncell(c) == c.class \in {"RNNCell", "AttentionWrapper"}

is_attention_mechanism(m) == m.class = "AttentionMechanism"

MechanismItems ==
  UNION {[1..n -> {Obj("AttentionMechanism"), Obj("object")}] : n \in 0..MaxMechanisms}

\* The attention_mechanism argument: one object, or a list of objects.
MechanismArgs ==
  {[is_list |-> FALSE, items |-> <<m>>] : m \in {Obj("AttentionMechanism"), Obj("object")}}
    \cup {[is_list |-> TRUE, items |-> ms] : ms \in MechanismItems}

\* The attention_layer_size argument: None, one integer, or a list of integers.
LayerSizeArgs ==
  {[is_none |-> TRUE, is_list |-> FALSE, items |-> <<>>],
   [is_none |-> FALSE, is_list |-> FALSE, items |-> <<1>>]}
    \cup {[is_none |-> FALSE, is_list |-> TRUE, items |-> [k \in 1..n |-> 1]] :
            n \in 0..(MaxMechanisms + 1)}

CellInputFnArgs == {"None", "callable", "object"}

Raised(e) == [raised |-> e, object |-> <<>>]
Constructed(o) == [raised |-> "none", object |-> <<o>>]

\* Variant: the two lengths are never compared.
layer_sizes_mismatch_never(attention_layer_sizes, attention_mechanisms) == FALSE

\* len(attention_layer_sizes) != len(attention_mechanisms)
layer_sizes_mismatch(attention_layer_sizes, attention_mechanisms) ==
  Len(attention_layer_sizes) # Len(attention_mechanisms)

\* AttentionWrapper.__init__, the checks in the order of the code.
AttentionWrapper_init(cell, attention_mechanism, attention_layer_size, fn) ==
  LET attention_mechanisms == attention_mechanism.items
      attention_layer_sizes == attention_layer_size.items
  IN IF ~like_rnncell(cell) THEN Raised("TypeError")
     ELSE IF \E j \in DOMAIN attention_mechanisms :
               ~is_attention_mechanism(attention_mechanisms[j])
     THEN Raised("TypeError")
     ELSE IF fn = "object" THEN Raised("TypeError")
     ELSE IF /\ ~attention_layer_size.is_none
             /\ layer_sizes_mismatch(attention_layer_sizes, attention_mechanisms)
     THEN Raised("ValueError")
     ELSE Constructed([class |-> "AttentionWrapper",
                       is_multi |-> attention_mechanism.is_list,
                       attention_mechanisms |-> attention_mechanisms,
                       attention_layers |-> attention_layer_sizes])

\* BasicDecoder.__init__; output_layer is <<>> for None.
BasicDecoder_init(cell, helper, output_layer) ==
  IF ~like_rnncell(cell) THEN Raised("TypeError")
  ELSE IF helper.class # "Helper" THEN Raised("TypeError")
  ELSE IF output_layer # <<>> /\ output_layer[1].class # "Layer"
  THEN Raised("TypeError")
  ELSE Constructed([class |-> "BasicDecoder", cell |-> cell, helper |-> helper,
                    output_layer |-> output_layer])

ConstructInit ==
  /\ DecodeIdle
  /\ wrapper = <<>> /\ mechanism = <<>> /\ data = <<>>
  /\ \E c \in {Obj("RNNCell"), Obj("object")} :
     \E am \in MechanismArgs : \E als \in LayerSizeArgs : \E fn \in CellInputFnArgs :
       construction = [cell |-> c, attention_mechanism |-> am,
                       attention_layer_size |-> als, cell_input_fn |-> fn,
                       wrapper |-> <<>>, decoder_args |-> <<>>, decoder |-> <<>>]

ConstructWrapper ==
  /\ construction # <<>>
  /\ construction.wrapper = <<>>
  /\ construction' =
       [construction EXCEPT !.wrapper =
          <<AttentionWrapper_init(construction.cell, construction.attention_mechanism,
                                  construction.attention_layer_size,
                                  construction.cell_input_fn)>>]
  /\ UNCHANGED <<config, decode, observed, runs, wrapper, mechanism, data>>

\* A BasicDecoder is built around the wrapper, if there is one, or around an
\* object that is not a cell.
ConstructDecoder ==
  /\ construction # <<>>
  /\ construction.wrapper # <<>>
  /\ construction.decoder = <<>>
  /\ \E c \in {Obj("object")} \cup {construction.wrapper[1].object[k] :
                                    k \in DOMAIN construction.wrapper[1].object} :
     \E h \in {Obj("Helper"), Obj("object")} :
     \E ol \in {<<>>, <<Obj("Layer")>>, <<Obj("object")>>} :
       construction' =
         [construction EXCEPT
            !.decoder_args = <<[cell |-> c, helper |-> h, output_layer |-> ol]>>,
            !.decoder = <<BasicDecoder_init(c, h, ol)>>]
  /\ UNCHANGED <<config, decode, observed, runs, wrapper, mechanism, data>>

ConstructNext == ConstructWrapper \/ ConstructDecoder

ConstructSpec == ConstructInit /\ [][ConstructNext]_vars

\* --------------------------------------------------------- CustomAttention
\* Tensors are functions of their indices: batch rows Batch, sentence
\* positions Sentences and word slots Words, counted from 0 as in the code.
\* The depth of the memory is one unit, and entries are integers.
Sentences == 0..(MaxSentences - 1)
Words == 0..(MaxWords - 1)

\* An optional valid-length vector: <<>> for None, else <<L>>.
LengthArgs == {<<>>} \cup {<<L>> : L \in [Batch -> 0..MaxSentences]}

\* float("-inf"); a finite score v is <<v>>.
score_mask_value == <<>>

\* Sum of f over the indices 0..(n - 1)
RECURSIVE SumTo(_, _)
SumTo(f, n) == IF n = 0 THEN 0 ELSE f[n - 1] + SumTo(f, n - 1)

RECURSIVE Pow2(_)
Pow2(n) == IF n = 0 THEN 1 ELSE 2 * Pow2(n - 1)

\* array_ops.sequence_mask(lengths, maxlen)
sequence_mask(lengths, maxlen) ==
  [i \in Batch |-> [s \in 0..(maxlen - 1) |-> s < lengths[i]]]

\* m * seq_len_mask, the mask reshaped with `extra` trailing dimensions of 1
maybe_mask(m, seq_len_mask, extra) ==
  [i \in Batch |->
    [s \in DOMAIN m[i] |->
      LET bit == IF seq_len_mask[i][s] THEN 1 ELSE 0
      IN IF extra = 0
         THEN m[i][s] * bit
         ELSE [w \in DOMAIN m[i][s] |-> m[i][s][w] * bit]]]

\* Variant: the memory is returned as given.
prepare_memory_unmasked(memory, memory_sequence_length, extra) == memory

\* _prepare_memory
prepare_memory(memory, memory_sequence_length, extra) ==
  IF memory_sequence_length = <<>>
  THEN memory
  ELSE maybe_mask(memory,
                  sequence_mask(memory_sequence_length[1], MaxSentences),
                  extra)

\* Variant: a dense layer with a bias of one.
memory_layer_biased(kernel, values) ==
  [i \in Batch |-> [s \in DOMAIN values[i] |-> kernel * values[i][s] + 1]]

\* layers_core.Dense(num_units, use_bias=False) on a memory of depth one
memory_layer(kernel, values) ==
  [i \in Batch |-> [s \in DOMAIN values[i] |-> kernel * values[i][s]]]

\* _luong_score with scale=False
luong_score(query, keys) ==
  [i \in Batch |-> [s \in DOMAIN keys[i] |-> query[i] * keys[i][s]]]

\* _luong_word_score with scale=False
luong_word_score(query, word_keys) ==
  [i \in Batch |->
    [s \in DOMAIN word_keys[i] |->
      [w \in DOMAIN word_keys[i][s] |-> query[i] * word_keys[i][s][w]]]]

\* Variant: the position equal to the length is left unmasked.
maybe_mask_score_late(score, memory_sequence_length, mask_value) ==
  IF memory_sequence_length = <<>>
  THEN [failed |-> FALSE,
        value |-> <<[i \in Batch |-> [s \in DOMAIN score[i] |-> <<score[i][s]>>]]>>]
  ELSE IF \E i \in Batch : memory_sequence_length[1][i] <= 0
  THEN [failed |-> TRUE, value |-> <<>>]
  ELSE [failed |-> FALSE,
        value |-> <<[i \in Batch |->
                      [s \in DOMAIN score[i] |->
                        IF s <= memory_sequence_length[1][i]
                        THEN <<score[i][s]>> ELSE mask_value]]>>]

\* _maybe_mask_score: assert_positive guards the masked score.
maybe_mask_score(score, memory_sequence_length, mask_value) ==
  IF memory_sequence_length = <<>>
  THEN [failed |-> FALSE,
        value |-> <<[i \in Batch |-> [s \in DOMAIN score[i] |-> <<score[i][s]>>]]>>]
  ELSE IF \E i \in Batch : memory_sequence_length[1][i] <= 0
  THEN [failed |-> TRUE, value |-> <<>>]
  ELSE LET score_mask == sequence_mask(memory_sequence_length[1], MaxSentences)
       IN [failed |-> FALSE,
           value |-> <<[i \in Batch |->
                         [s \in DOMAIN score[i] |->
                           IF score_mask[i][s]
                           THEN <<score[i][s]>> ELSE mask_value]]>>]

\* nn_ops.softmax over the sentence dimension, as exact fractions
\* <<numerator, denominator>>; exponentials are taken to base 2 and
\* exp(-inf) is 0.
softmax(x) ==
  [i \in Batch |->
    LET finite == {s \in DOMAIN x[i] : x[i][s] # <<>>}
        lo == IF finite = {} THEN 0
              ELSE CHOOSE v \in {x[i][s][1] : s \in finite} :
                     \A s \in finite : v <= x[i][s][1]
        weight == [s \in DOMAIN x[i] |->
                    IF x[i][s] = <<>> THEN 0 ELSE Pow2(x[i][s][1] - lo)]
        total == SumTo(weight, MaxSentences)
    IN [s \in DOMAIN x[i] |-> <<weight[s], total>>]]

\* _BaseAttentionMechanism.__init__: the prepared memories and the keys.
CustomAttention(a) ==
  LET values == prepare_memory(a.line_memory, a.line_memory_sequence_length, 0)
      word_values == prepare_memory(a.word_memory, a.word_memory_sequence_length, 1)
  IN [values |-> values,
      word_values |-> word_values,
      keys |-> memory_layer(a.kernel, values)]

\* CustomAttention.__call__: each returned tensor is <<>> when evaluating
\* it raises, else <<its value>>.
CustomAttention_call(a, m, query) ==
  LET score == luong_score(query, m.keys)
      word_scores == luong_word_score(query, m.word_values)
      masked == maybe_mask_score(score, a.line_memory_sequence_length,
                                 score_mask_value)
      word_alignments ==
        [i \in Batch |->
          [k \in 0..(MaxSentences * MaxWords - 1) |->
            word_scores[i][k \div MaxWords][k % MaxWords] * score[i][k \div MaxWords]]]
  IN [query |-> query,
      score |-> score,
      word_scores |-> word_scores,
      masked_score |-> masked.value,
      alignments |-> IF masked.failed THEN <<>> ELSE <<softmax(masked.value[1])>>,
      word_alignments |-> <<word_alignments>>]

MechInit ==
  /\ DecodeIdle
  /\ wrapper = <<>> /\ construction = <<>> /\ data = <<>>
  /\ \E v \in [Sentences -> {-1, 2}] : \E k \in {-1, 2} :
     \E ll, wl \in LengthArgs :
       mechanism =
         [args |-> [line_memory |-> [i \in Batch |-> v],
                    word_memory |-> [i \in Batch |->
                                      [s \in Sentences |-> [w \in Words |-> i + s + w]]],
                    kernel |-> k,
                    line_memory_sequence_length |-> ll,
                    word_memory_sequence_length |-> wl],
          built |-> <<>>,
          zero |-> <<>>,
          called |-> <<>>]

MechConstruct ==
  /\ mechanism # <<>>
  /\ mechanism.built = <<>>
  /\ mechanism' = [mechanism EXCEPT !.built = <<CustomAttention(mechanism.args)>>]
  /\ UNCHANGED <<config, decode, observed, runs, wrapper, construction, data>>

\* _BaseAttentionMechanism.alignments_size: keys.shape[1]
alignments_size(m) == Cardinality(DOMAIN m.keys[CHOOSE i \in Batch : TRUE])

\* _BaseAttentionMechanism.word_alignments_size: word_values.shape[2]
word_alignments_size(m) ==
  LET row == m.word_values[CHOOSE i \in Batch : TRUE]
  IN Cardinality(DOMAIN row[CHOOSE s \in DOMAIN row : TRUE])

\* _BaseAttentionMechanism.initial_alignments: zeros of width
\* word_alignments_size * alignments_size
initial_alignments(m) ==
  [i \in Batch |->
    [k \in 0..(word_alignments_size(m) * alignments_size(m) - 1) |-> 0]]

\* The alignments entry of AttentionWrapper.state_size for one mechanism
state_size_alignments(m) == alignments_size(m)

\* AttentionWrapper.zero_state asks the mechanism for its initial alignments,
\* the alignments field of the wrapper's first state.
MechZeroState ==
  /\ mechanism # <<>>
  /\ mechanism.built # <<>>
  /\ mechanism.zero = <<>>
  /\ mechanism' = [mechanism EXCEPT !.zero = <<initial_alignments(mechanism.built[1])>>]
  /\ UNCHANGED <<config, decode, observed, runs, wrapper, construction, data>>

\* The mechanism scores the query whose entry for row i is i; the word
\* alignment it returns is the alignments field of the wrapper's next state.
MechCall ==
  /\ mechanism # <<>>
  /\ mechanism.built # <<>>
  /\ mechanism.zero # <<>>
  /\ mechanism.called = <<>>
  /\ mechanism' =
       [mechanism EXCEPT !.called =
          <<CustomAttention_call(mechanism.args, mechanism.built[1],
                                 [i \in Batch |-> i])>>]
  /\ UNCHANGED <<config, decode, observed, runs, wrapper, construction, data>>

MechNext == MechConstruct \/ MechZeroState \/ MechCall

MechSpec == MechInit /\ [][MechNext]_vars

\* ------------------------------------------------------------------- Data
\* Words are strings; "a" is in the decoder vocabulary, "x" and "y" are not.
decoder_vocab ==
  [w \in {"$PAD", "$UNK", "$GO", "$EOS", "a"} |->
     CASE w = "$PAD" -> PAD_INDEX
       [] w = "$UNK" -> UNK_INDEX
       [] w = "$GO" -> GO_SYMBOL_INDEX
       [] w = "$EOS" -> EOS_INDEX
       [] w = "a" -> EOS_INDEX + 1]

\* Data.__init__: len(decoder_vocab)
decode_vocab_size == Cardinality(DOMAIN decoder_vocab)

\* The encoder vocabulary knows "a" and "x" but not "y".
word_idx == [w \in {"a", "x"} |-> IF w = "a" THEN EOS_INDEX + 1 ELSE EOS_INDEX + 2]

SentenceChoices == {<<"x">>, <<"a">>, <<"y", "x">>, <<"x", "y">>, <<"a", "y">>}

sentence_size ==
  CHOOSE n \in {Len(s) : s \in SentenceChoices} : \A s \in SentenceChoices : Len(s) <= n

StoryChoices == UNION {[1..n -> SentenceChoices] : n \in 1..MaxStory}

Min2(a, b) == IF a <= b THEN a ELSE b
Max2(a, b) == IF a >= b THEN a ELSE b

\* list.index, counted from 0
index_of(list, w) == (CHOOSE k \in 1..Len(list) :
                        list[k] = w /\ \A j \in 1..(k - 1) : list[j] # w) - 1

list_contains(list, w) == \E k \in 1..Len(list) : list[k] = w

\* n copies of v
repeat(v, n) == [k \in 1..n |-> v]

\* Variant: a repeated word is looked up with an index counted from 1.
oov_word_id_from_one(w, oov_words) ==
  IF w \notin DOMAIN decoder_vocab
  THEN IF ~list_contains(oov_words, w)
       THEN decode_vocab_size + Len(oov_words)
       ELSE decode_vocab_size + index_of(oov_words, w) + 1
  ELSE decoder_vocab[w]

\* The id appended to oov_sentence_ids for the word w.
oov_word_id(w, oov_words) ==
  IF w \notin DOMAIN decoder_vocab
  THEN IF ~list_contains(oov_words, w)
       THEN decode_vocab_size + Len(oov_words)
       ELSE decode_vocab_size + index_of(oov_words, w)
  ELSE decoder_vocab[w]

\* The inner loop over the words of a sentence, from word j on.
RECURSIVE oov_sentence(_, _, _, _)
oov_sentence(sentence, j, ids, oov_words) ==
  IF j > Len(sentence)
  THEN [ids |-> ids, oov_words |-> oov_words]
  ELSE LET w == sentence[j]
           fresh == w \notin DOMAIN decoder_vocab /\ ~list_contains(oov_words, w)
       IN oov_sentence(sentence, j + 1,
                       Append(ids, oov_word_id(w, oov_words)),
                       IF fresh THEN Append(oov_words, w) ELSE oov_words)

\* The loop over the sentences of a story, from sentence k on.
RECURSIVE story_loop(_, _, _)
story_loop(story, k, acc) ==
  IF k > Len(story)
  THEN acc
  ELSE LET sentence == story[k]
           ls == Max2(0, sentence_size - Len(sentence))
           r == oov_sentence(sentence, 1, <<>>, acc.oov_words)
       IN story_loop(story, k + 1,
            [ss |-> Append(acc.ss,
                           [j \in 1..Len(sentence) |->
                              IF sentence[j] \in DOMAIN word_idx
                              THEN word_idx[sentence[j]] ELSE UNK_INDEX]
                             \o repeat(0, ls)),
             sizes |-> Append(acc.sizes, Len(sentence)),
             oov_ids |-> Append(acc.oov_ids, r.ids \o repeat(PAD_INDEX, ls)),
             oov_words |-> r.oov_words])

\* x[::-1][:n][::-1]: the last n elements
most_recent(x, n) ==
  LET kept == Min2(n, Len(x))
  IN [k \in 1..kept |-> x[Len(x) - kept + k]]

\* max(1, min(max_memory_size, len(story))) for the first story of a group
memory_size_of(max_memory_size, first_len) ==
  Max2(1, Min2(max_memory_size, first_len))

\* The body of the loop of Data._vectorize_stories for one story, with the
\* memory_size in force; the readable form of the story is left out.
vectorize_story(story, memory_size) ==
  LET acc == story_loop(story, 1,
                        [ss |-> <<>>, sizes |-> <<>>, oov_ids |-> <<>>,
                         oov_words |-> <<>>])
      ss == most_recent(acc.ss, memory_size)
      oov_ids == most_recent(acc.oov_ids, memory_size)
      sizes == most_recent(acc.sizes, memory_size)
      lm == Max2(0, memory_size - Len(ss))
  IN [memory_size |-> memory_size,
      S |-> ss \o repeat(repeat(0, sentence_size), lm),
      OOV_ids |-> oov_ids \o repeat(repeat(0, sentence_size), lm),
      SZ |-> sizes \o repeat(0, lm),
      OOV_size |-> Len(acc.oov_words),
      OOV_words |-> acc.oov_words]

\* Variant: memory_size is computed anew for every story.
RECURSIVE vectorize_stories_own_size(_, _, _, _, _, _)
vectorize_stories_own_size(stories, i, batch_size, max_memory_size, memory_size, out) ==
  IF i >= Len(stories)
  THEN out
  ELSE LET story == stories[i + 1]
           ms == memory_size_of(max_memory_size, Len(story))
       IN vectorize_stories_own_size(stories, i + 1, batch_size, max_memory_size, ms,
                                     Append(out, vectorize_story(story, ms)))

\* Data._vectorize_stories: the loop over the stories from index i on;
\* memory_size is set anew at every index that is a multiple of batch_size.
RECURSIVE vectorize_stories(_, _, _, _, _, _)
vectorize_stories(stories, i, batch_size, max_memory_size, memory_size, out) ==
  IF i >= Len(stories)
  THEN out
  ELSE LET story == stories[i + 1]
           ms == IF i % batch_size = 0
                 THEN memory_size_of(max_memory_size, Len(story))
                 ELSE memory_size
       IN vectorize_stories(stories, i + 1, batch_size, max_memory_size, ms,
                            Append(out, vectorize_story(story, ms)))

\* Data._vectorize_queries for one query
vectorize_query(query) ==
  [j \in 1..Len(query) |->
     IF query[j] \in DOMAIN word_idx THEN word_idx[query[j]] ELSE UNK_INDEX]
    \o repeat(0, Max2(0, sentence_size - Len(query)))

\* The item x put after the items of sorted whose story is at least as long.
RECURSIVE insert_by_length(_, _)
insert_by_length(sorted, x) ==
  IF sorted = <<>> \/ Len(sorted[Len(sorted)].story) >= Len(x.story)
  THEN Append(sorted, x)
  ELSE Append(insert_by_length(SubSeq(sorted, 1, Len(sorted) - 1), x),
              sorted[Len(sorted)])

\* data.sort(key=lambda x: len(x[0]), reverse=True): longest story first,
\* items with stories of one length in their given order
RECURSIVE sort_by_length(_, _, _)
sort_by_length(items, k, sorted) ==
  IF k > Len(items) THEN sorted
  ELSE sort_by_length(items, k + 1, insert_by_length(sorted, items[k]))

\* Data.__init__: the items are sorted, then stories and queries vectorized.
Data(items, batch_size, max_memory_size) ==
  LET ext == sort_by_length(items, 1, <<>>)
  IN [items |-> ext,
      stories |-> vectorize_stories([e \in 1..Len(ext) |-> ext[e].story], 0,
                                    batch_size, max_memory_size, 0, <<>>),
      queries |-> [e \in 1..Len(ext) |-> vectorize_query(ext[e].query)]]

\* A story of n sentences made of the word "a" alone.
filler(n) == [k \in 1..n |-> <<"a">>]

QueryChoices == {<<"x">>, <<"a", "y">>}

GroupSizes == {1, 2}

\* The data items of a run: the story under study with its query, alone or
\* followed by a second item; dialog_id tells them apart.
Items(story, query, companion) ==
  <<[story |-> story, query |-> query, dialog_id |-> 1]>>
    \o [k \in 1..Len(companion) |->
          [story |-> companion[k], query |-> <<"a">>, dialog_id |-> 2]]

DataInit ==
  /\ DecodeIdle
  /\ wrapper = <<>> /\ construction = <<>> /\ mechanism = <<>>
  /\ \E story \in StoryChoices : \E mms \in 1..MaxStory :
     \E companion \in {<<>>} \cup {<<filler(n)>> : n \in 1..MaxStory} :
     \E bs \in GroupSizes : \E query \in QueryChoices :
       data = [story |-> story, query |-> query, companion |-> companion,
               batch_size |-> bs, max_memory_size |-> mms,
               dataset |-> <<>>, vectorized |-> <<>>,
               original |-> <<>>, batches |-> <<>>]

\* Data is constructed; vectorized is the entry of the story under study.
Vectorize ==
  /\ data # <<>>
  /\ data.dataset = <<>>
  /\ LET d == Data(Items(data.story, data.query, data.companion),
                   data.batch_size, data.max_memory_size)
         e == CHOOSE e \in 1..Len(d.items) : d.items[e].dialog_id = 1
     IN data' = [data EXCEPT !.dataset = <<d>>,
                             !.vectorized = <<d.stories[e]>>,
                             !.original = <<d>>]
  /\ UNCHANGED <<config, decode, observed, runs, wrapper, construction, mechanism>>

DataNext == Vectorize

DataSpec == DataInit /\ [][DataNext]_vars

\* ------------------------------------------------------------ data.Batch
\* Batch._get_vocab_as_list: the ids that occur in a story array and its
\* query array, 0 left out
get_vocab_as_list(story, query) ==
  ({story[k][j] : k \in 1..Len(story), j \in 1..sentence_size}
     \cup {query[j] : j \in 1..Len(query)}) \ {0}

\* x[x == element] = UNK_INDEX on one row of ids
unk_row(row, element) ==
  [j \in 1..Len(row) |-> IF row[j] = element THEN UNK_INDEX ELSE row[j]]

\* The loop over sampled_words of Batch._random_unk for one story and its
\* query, from the k-th sampled word on; both arrays are written in place.
RECURSIVE unk_elements(_, _, _, _)
unk_elements(story, query, sampled_words, k) ==
  IF k > Len(sampled_words)
  THEN [story |-> story, query |-> query]
  ELSE unk_elements([r \in 1..Len(story) |-> unk_row(story[r], sampled_words[k])],
                    unk_row(query, sampled_words[k]),
                    sampled_words, k + 1)

\* The sampled words random.choice may return for the examples start+1..end:
\* unk_size words of the vocabulary of each example.
SampledWords(d, start, end, unk_size) ==
  {f \in [(start + 1)..end ->
            [1..unk_size -> UNION {get_vocab_as_list(d.stories[e].S, d.queries[e])
                                     : e \in (start + 1)..end}]] :
     \A e \in (start + 1)..end : \A k \in 1..unk_size :
       f[e][k] \in get_vocab_as_list(d.stories[e].S, d.queries[e])}

\* Batch._random_unk on the arrays data.stories[start:end] and
\* data.queries[start:end]: the slices hold the arrays of the Data object
\* themselves, so the result is the Data object after the call.
random_unk(d, start, end, sampled) ==
  LET u(e) == unk_elements(d.stories[e].S, d.queries[e], sampled[e], 1)
  IN [d EXCEPT
        !.stories = [e \in 1..Len(d.stories) |->
                       IF e > start /\ e <= end
                       THEN [d.stories[e] EXCEPT !.S = u(e).story]
                       ELSE d.stories[e]],
        !.queries = [e \in 1..Len(d.queries) |->
                       IF e > start /\ e <= end THEN u(e).query
                       ELSE d.queries[e]]]

UnkSizes == {0, 1, 2}

\* A Data object has been constructed from one or two short stories.
BatchInit ==
  /\ DecodeIdle
  /\ wrapper = <<>> /\ construction = <<>> /\ mechanism = <<>>
  /\ \E story \in {s \in StoryChoices : Len(s) = 1} :
     \E companion \in {<<>>, <<filler(1)>>} : \E query \in QueryChoices :
       LET d == Data(Items(story, query, companion), 1, 1)
       IN data = [story |-> story, query |-> query, companion |-> companion,
                  batch_size |-> 1, max_memory_size |-> 1,
                  dataset |-> <<d>>, vectorized |-> <<d.stories[1]>>,
                  original |-> <<d>>, batches |-> <<>>]

\* Batch(data, start, end, unk_size, word_drop): the stories and queries of
\* the batch are the arrays of data at start+1..end, not copies of them.
BatchConstruct ==
  /\ data # <<>>
  /\ data.dataset # <<>>
  /\ Len(data.batches) < MaxBatches
  /\ LET d == data.dataset[1]
     IN \E start \in 0..(Len(d.stories) - 1) :
        \E end \in (start + 1)..Len(d.stories) :
        \E unk_size \in UnkSizes : \E word_drop \in BOOLEAN :
        \E sampled \in SampledWords(d, start, end, IF word_drop THEN unk_size ELSE 0) :
          data' = [data EXCEPT
                     !.dataset = <<IF word_drop
                                   THEN random_unk(d, start, end, sampled)
                                   ELSE d>>,
                     !.batches = Append(@, [start |-> start, end |-> end,
                                            unk_size |-> unk_size,
                                            word_drop |-> word_drop,
                                            sampled_words |-> sampled])]
  /\ UNCHANGED <<config, decode, observed, runs, wrapper, construction, mechanism>>

BatchNext == BatchConstruct

BatchSpec == BatchInit /\ [][BatchNext]_vars

\* ------------------------------------------------------------ properties
InLoop == pc = "loop"
Done == pc = "done"
Started == pc \in {"loop", "done"}
Steps == Len(step_log)
LastStep == step_log[Len(step_log)]
PositiveMax == HasMax(maximum_iterations) /\ maximum_iterations[1] > 0
Forced(t) == HasMax(maximum_iterations) /\ t + 1 >= maximum_iterations[1]

\* C1: with maximum_iterations = M > 0 the loop body runs at most M times
\* whatever the finished signals are, and sequence_lengths[i] <= M for every
\* element; the loop terminates: every iteration adds one to the number of
\* steps run, and once M steps have run the loop condition is false.
C1_TerminatesWithinMax ==
  (PositiveMax /\ Started) =>
    /\ Steps <= maximum_iterations[1]
    /\ time = Steps
    /\ \A i \in Batch : sequence_lengths[i] <= maximum_iterations[1]
    /\ Steps = maximum_iterations[1] => ~condition(finished)
    /\ Done => ~condition(finished)

\* The decoder never reported some element finished and the maximum ended
\* the loop after exactly M steps.
C1_Witness ==
  /\ Done /\ PositiveMax /\ Steps = maximum_iterations[1]
  /\ \E i \in Batch :
       /\ ~init_log[1].finished[i]
       /\ \A k \in 1..Steps : ~step_log[k].result.finished[i]
       /\ sequence_lengths[i] = maximum_iterations[1]

\* C2: sequence_lengths[i] is 0 while element i is not finished; an iteration
\* writes it only when finished[i] goes from false to true, to that
\* iteration's step count, and a set flag stays set, so it is written at most
\* once and keeps its value in every later iteration.
C2_SequenceLengthWrittenOnce ==
  /\ [](Started => \A i \in Batch : ~finished[i] => sequence_lengths[i] = 0)
  /\ [][InLoop =>
          \A i \in Batch :
            /\ finished[i] => finished'[i]
            /\ IF ~finished[i] /\ finished'[i]
               THEN sequence_lengths'[i] = Len(step_log')
               ELSE sequence_lengths'[i] = sequence_lengths[i]]_vars

\* An element finished at step 1 and the loop ran two more iterations.
C2_Witness ==
  /\ InLoop /\ Steps >= 3
  /\ \E i \in Batch : finished[i] /\ sequence_lengths[i] = 1

\* C3: with impute_finished the entry written for element i at every step
\* after the one at which it finished is zero, and the entry of every step up
\* to and including the one at which it finished is the decoder's raw output.
C3_ImputedOutputsZero ==
  (Started /\ impute_finished) =>
    \A k \in 1..Steps : \A i \in Batch :
      LET t == step_log[k].time
          raw == step_log[k].result.outputs
          past == finished[i] /\ t >= sequence_lengths[i]
      IN /\ outputs_ta.rnn_output.elems[t][i] = IF past THEN 0 ELSE raw.rnn_output[i]
         /\ outputs_ta.sample_id.elems[t][i] = IF past THEN 0 ELSE raw.sample_id[i]

\* An element finished at step 1 by its own signal, the decoder produced a
\* non-zero output for it at a later step, and that entry is zero.
C3_Witness ==
  /\ Started /\ impute_finished /\ Steps >= 2
  /\ \E i \in Batch :
       /\ sequence_lengths[i] = 1 /\ finished[i]
       /\ step_log[2].result.outputs.sample_id[i] # 0
       /\ outputs_ta.sample_id.elems[1][i] = 0
       /\ outputs_ta.sample_id.elems[0][i] = step_log[1].result.outputs.sample_id[i]

\* C4: with impute_finished an iteration leaves cell_state, attention and
\* alignments of the elements finished before it as they were, gives the
\* other elements the decoder's values, and takes time and alignment_history
\* from the decoder's state.
C4_StateHeldForFinished ==
  [][(InLoop /\ impute_finished /\ Len(step_log') = Len(step_log) + 1) =>
       LET d == step_log'[Len(step_log')].result.next_state
       IN /\ \A i \in Batch :
               IF finished[i]
               THEN /\ state'.cell_state[i] = state.cell_state[i]
                    /\ state'.attention[i] = state.attention[i]
                    /\ state'.alignments[i] = state.alignments[i]
               ELSE /\ state'.cell_state[i] = d.cell_state[i]
                    /\ state'.attention[i] = d.attention[i]
                    /\ state'.alignments[i] = d.alignments[i]
          /\ state'.time = d.time
          /\ state'.alignment_history = d.alignment_history]_vars

\* The last step computed, for an element finished before it, a state that
\* differs from the held one in every field.
C4_Witness ==
  /\ Started /\ impute_finished /\ Steps >= 2
  /\ \E i \in Batch :
       /\ LastStep.finished_before[i]
       /\ LastStep.result.next_state.cell_state[i] # state.cell_state[i]
       /\ LastStep.result.next_state.attention[i] # state.attention[i]
       /\ LastStep.result.next_state.alignments[i] # state.alignments[i]
       /\ state.time = LastStep.state.time + 1

\* C5: after an iteration finished[i] is the previous flag or the decoder's
\* flag or (maximum given and time + 1 >= maximum); a set flag is never
\* cleared.
C5_FinishedIsDisjunction ==
  [][(InLoop /\ Len(step_log') = Len(step_log) + 1) =>
       \A i \in Batch :
         /\ finished'[i] = (\/ finished[i]
                            \/ step_log'[Len(step_log')].result.finished[i]
                            \/ Forced(time))
         /\ finished[i] => finished'[i]]_vars

\* The decoder reported a previously finished element as not finished, the
\* maximum did not force the flag, and the flag is still set.
C5_Witness ==
  /\ Started /\ Steps >= 2
  /\ \E i \in Batch :
       /\ LastStep.finished_before[i]
       /\ ~LastStep.result.finished[i]
       /\ ~Forced(LastStep.time)
       /\ finished[i]

\* C6 as stated: before the first iteration every flag is false unless
\* maximum_iterations <= 0, when every flag is true, no iteration runs and
\* every sequence length is 0.
C6_Original ==
  /\ (InLoop /\ Steps = 0) =>
       \A i \in Batch :
         finished[i] = (HasMax(maximum_iterations) /\ maximum_iterations[1] <= 0)
  /\ (Started /\ HasMax(maximum_iterations) /\ maximum_iterations[1] <= 0) =>
       (Steps = 0 /\ \A i \in Batch : sequence_lengths[i] = 0)

\* C6 amended: before the first iteration finished[i] is the flag returned by
\* decoder.initialize() or-ed with maximum_iterations <= 0; when
\* maximum_iterations <= 0 no iteration runs and every sequence length is 0.
C6_InitialFinished ==
  /\ (InLoop /\ Steps = 0) =>
       \A i \in Batch :
         finished[i] = (\/ init_log[1].finished[i]
                        \/ (HasMax(maximum_iterations) /\ maximum_iterations[1] <= 0))
  /\ (Started /\ HasMax(maximum_iterations) /\ maximum_iterations[1] <= 0) =>
       (Steps = 0 /\ \A i \in Batch : finished[i] /\ sequence_lengths[i] = 0)

\* maximum_iterations <= 0, the helper started every element unfinished, and
\* dynamic_decode returned.
C6_Witness ==
  /\ Done /\ HasMax(maximum_iterations) /\ maximum_iterations[1] <= 0
  /\ \A i \in Batch : ~init_log[1].finished[i]

\* C7: in two runs that agree on the observed element's finished signals and
\* on maximum_iterations, the element's finished flag after every common
\* iteration and its sequence length are the same, whatever the other
\* elements' signals are.
C7_ElementIndependence ==
  runs # <<>> =>
    /\ runs[1].finished[observed] = runs[2].finished[observed]
    /\ runs[1].sequence_lengths[observed] = runs[2].sequence_lengths[observed]

\* Both loops have exited after different numbers of iterations, and in
\* the longer run another element finished later than the observed one.
C7_Witness ==
  /\ runs # <<>>
  /\ ~condition(runs[1].finished) /\ ~condition(runs[2].finished)
  /\ runs[1].time # runs[2].time
  /\ runs[1].sequence_lengths[observed] = 1
  /\ \E j \in Batch :
       /\ j # observed
       /\ runs[1].sequence_lengths[j] # runs[2].sequence_lengths[j]

\* Entry of a returned tensor for step t and element i, in either layout.
At(x, t, i) == IF output_time_major THEN x.elems[t][i] ELSE x.elems[i][t]

\* The layout of a returned output tensor: a dense tensor of all the steps,
\* time-major or batch-major as asked.
DenseLayout(x) ==
  /\ x.kind = "Tensor"
  /\ IF output_time_major
     THEN /\ DOMAIN x.elems = 0..(Steps - 1)
          /\ \A t \in DOMAIN x.elems : DOMAIN x.elems[t] = Batch
     ELSE /\ DOMAIN x.elems = Batch
          /\ \A i \in Batch : DOMAIN x.elems[i] = 0..(Steps - 1)

C9_FinalizePass ==
  Done =>
    IF has_finalize
    THEN /\ Len(result[1].finalize_calls) = 1
         /\ LET a == result[1].finalize_calls[1]
            IN /\ a.state = state
               /\ a.sequence_lengths = sequence_lengths
               /\ a.outputs.sample_id.kind = "Tensor"
               /\ DOMAIN a.outputs.sample_id.elems = 0..(Steps - 1)
               /\ \A t \in 0..(Steps - 1) : \A i \in Batch :
                    /\ a.outputs.sample_id.elems[t][i] = outputs_ta.sample_id.elems[t][i]
                    /\ a.outputs.rnn_output.elems[t][i] = outputs_ta.rnn_output.elems[t][i]
         /\ \A t \in 0..(Steps - 1) : \A i \in Batch :
              /\ At(result[1].final_outputs.sample_id, t, i)
                   = IF t >= sequence_lengths[i] THEN EOS_INDEX
                     ELSE outputs_ta.sample_id.elems[t][i]
              /\ At(result[1].final_outputs.rnn_output, t, i)
                   = outputs_ta.rnn_output.elems[t][i]
         /\ result[1].final_state = [state EXCEPT !.attention = [i \in Batch |-> 0]]
    ELSE /\ result[1].finalize_calls = <<>>
         /\ result[1].final_state = state
         /\ \A t \in 0..(Steps - 1) : \A i \in Batch :
              /\ At(result[1].final_outputs.sample_id, t, i)
                   = outputs_ta.sample_id.elems[t][i]
              /\ At(result[1].final_outputs.rnn_output, t, i)
                   = outputs_ta.rnn_output.elems[t][i]

\* A finalize pass that changed both the outputs and the state, returned
\* batch-major.
C9_Witness ==
  /\ Done /\ has_finalize /\ ~output_time_major /\ Steps >= 2
  /\ result[1].final_state # state
  /\ \E i \in Batch :
       /\ sequence_lengths[i] = 1
       /\ outputs_ta.sample_id.elems[1][i] # EOS_INDEX
       /\ result[1].final_outputs.sample_id.elems[i][1] = EOS_INDEX

\* C10: every call returns a state whose time is the input state's time plus
\* one; with alignment history on it writes the step's alignment at the input
\* state's time, so after k calls from zero_state the history holds exactly
\* the k alignments at 0..k-1; with it off the history stays empty.
C10_TimeAndHistory ==
  Started =>
    /\ \A k \in 1..Steps :
         LET before == step_log[k].state
             after == step_log[k].result.next_state
         IN /\ after.time = before.time + 1
            /\ before.time = k - 1
            /\ IF alignment_history
               THEN /\ DOMAIN after.alignment_history[1].elems = 0..(k - 1)
                    /\ after.alignment_history[1].elems[before.time]
                         = step_log[k].result.attention
                    /\ \A j \in 0..(k - 2) :
                         after.alignment_history[1].elems[j]
                           = before.alignment_history[1].elems[j]
               ELSE after.alignment_history = <<>>
    /\ state.time = Steps
    /\ IF alignment_history
       THEN /\ DOMAIN state.alignment_history[1].elems = 0..(Steps - 1)
            /\ \A k \in 1..Steps :
                 state.alignment_history[1].elems[k - 1] = step_log[k].result.attention
       ELSE state.alignment_history = <<>>

\* Three calls from zero_state with history on.
C10_Witness ==
  /\ Started /\ alignment_history /\ Steps = 3
  /\ state.time = 3
  /\ DOMAIN state.alignment_history[1].elems = {0, 1, 2}

\* C18: a maximum_iterations that is not a scalar makes dynamic_decode fail
\* before decoder.initialize is called and before any step runs; a scalar or
\* absent one never fails this way.
C18_NonScalarMaximumRejected ==
  /\ maximum_iterations \in NonScalarChoices =>
       /\ pc \in {"start", "error"}
       /\ init_log = <<>> /\ step_log = <<>> /\ result = <<>>
  /\ pc = "error" => maximum_iterations \in NonScalarChoices

\* dynamic_decode has raised on a vector of two maxima.
C18_Witness ==
  /\ pc = "error"
  /\ maximum_iterations = <<1, 1>>
  /\ init_log = <<>>

C17_BatchMismatchFatal ==
  /\ wrapper # <<>>
  /\ \A k \in 1..Len(wrapper.calls) :
       LET r == wrapper.calls[k].result
           mismatch == \E j \in DOMAIN wrapper.memory_batch :
                         wrapper.memory_batch[j] # BatchSize
       IN /\ mismatch =>
               /\ r.error
               /\ r.output = <<>> /\ r.next_state = <<>>
               /\ r.trace = <<"cell", "check">>
               /\ wrapper.state = wrapper.calls[k].before
               /\ k = Len(wrapper.calls)
          /\ ~mismatch =>
               /\ ~r.error
               /\ r.trace = <<"cell", "check", "score">>

\* A call failed because the second of two mechanisms has another batch size.
C17_Witness ==
  /\ wrapper # <<>>
  /\ wrapper.memory_batch = <<BatchSize, BatchSize + 1>>
  /\ wrapper.failed
  /\ Len(wrapper.calls) = 1

\* C19: an AttentionWrapper constructor given an attention_layer_size list
\* whose length differs from the number of attention mechanisms raises (a
\* ValueError when the other arguments are well typed) and a BasicDecoder
\* constructor given a cell, helper or output layer of the wrong type raises a
\* TypeError; in both cases no object results.
C19_ConstructorsReject ==
  /\ construction # <<>>
  /\ construction.wrapper # <<>> =>
       LET r == construction.wrapper[1]
           als == construction.attention_layer_size
           ams == construction.attention_mechanism.items
           well_typed ==
             /\ construction.cell.class = "RNNCell"
             /\ \A j \in DOMAIN ams : ams[j].class = "AttentionMechanism"
             /\ construction.cell_input_fn # "object"
       IN /\ r.raised # "none" <=> r.object = <<>>
          /\ (als.is_list /\ Len(als.items) # Len(ams)) =>
               /\ r.raised \in {"TypeError", "ValueError"}
               /\ well_typed => r.raised = "ValueError"
          /\ ~well_typed => r.raised = "TypeError"
  /\ construction.decoder # <<>> =>
       LET r == construction.decoder[1]
           a == construction.decoder_args[1]
           wrong == \/ a.cell.class \notin {"RNNCell", "AttentionWrapper"}
                    \/ a.helper.class # "Helper"
                    \/ a.output_layer # <<>> /\ a.output_layer[1].class # "Layer"
       IN /\ wrong => r.raised = "TypeError" /\ r.object = <<>>
          /\ ~wrong => r.raised = "none" /\ r.object # <<>>

\* Well typed arguments with three layer sizes for two mechanisms were
\* rejected, and a decoder around a non-cell was rejected as well.
C19_Witness ==
  /\ construction # <<>>
  /\ construction.cell.class = "RNNCell"
  /\ construction.cell_input_fn = "None"
  /\ construction.attention_mechanism.is_list
  /\ construction.attention_mechanism.items
       = <<Obj("AttentionMechanism"), Obj("AttentionMechanism")>>
  /\ Len(construction.attention_layer_size.items) = 3
  /\ construction.wrapper # <<>>
  /\ construction.wrapper[1].raised = "ValueError"
  /\ construction.decoder # <<>>
  /\ construction.decoder[1].raised = "TypeError"

\* C12: for every batch row the flattened word alignment sums to the total of
\* the row's sentence alignment (1), each entry being the word-level raw score
\* times the normalized sentence alignment of its sentence.
C12_WordAlignmentWeightedByAlignment ==
  (mechanism # <<>> /\ mechanism.called # <<>>
     /\ mechanism.called[1].alignments # <<>>) =>
    LET r == mechanism.called[1]
        al == r.alignments[1]
        wa == r.word_alignments[1]
    IN \A i \in Batch :
         LET den == al[i][0][2]
             num == [s \in Sentences |-> al[i][s][1]]
         IN /\ SumTo(wa[i], MaxSentences * MaxWords) * den = SumTo(num, MaxSentences)
            /\ \A s \in Sentences : \A w \in Words :
                 wa[i][s * MaxWords + w] * den = r.word_scores[i][s][w] * num[s]

\* C13: with line-memory lengths L supplied (all positive), the score at every
\* position >= L[i] of row i is replaced by the mask value before the
\* normalizer, every score at a position < L[i] passes unchanged, and the
\* sentence alignment is zero exactly at the masked positions and sums to one.
C13_ScoreMasked ==
  (mechanism # <<>> /\ mechanism.called # <<>>
     /\ mechanism.args.line_memory_sequence_length # <<>>
     /\ \A i \in Batch : mechanism.args.line_memory_sequence_length[1][i] > 0) =>
    LET r == mechanism.called[1]
        L == mechanism.args.line_memory_sequence_length[1]
    IN /\ r.masked_score # <<>> /\ r.alignments # <<>>
       /\ \A i \in Batch :
            /\ \A s \in Sentences :
                 /\ s >= L[i] => /\ r.masked_score[1][i][s] = <<>>
                                 /\ r.alignments[1][i][s][1] = 0
                 /\ s < L[i] => /\ r.masked_score[1][i][s] = <<r.score[i][s]>>
                                /\ r.alignments[1][i][s][1] > 0
                 /\ r.alignments[1][i][s][2]
                      = SumTo([t \in Sentences |-> r.alignments[1][i][t][1]],
                              MaxSentences)

\* Row 1 has one valid sentence: its alignment is 1 at position 0 and 0 after.
C13_Witness ==
  /\ mechanism # <<>> /\ mechanism.called # <<>>
  /\ mechanism.args.line_memory_sequence_length # <<>>
  /\ \A i \in Batch : mechanism.args.line_memory_sequence_length[1][i] = 1
  /\ mechanism.called[1].alignments # <<>>
  /\ mechanism.called[1].alignments[1][1][0] = <<1, 1>>
  /\ mechanism.called[1].alignments[1][1][1] = <<0, 1>>
  /\ mechanism.called[1].masked_score[1][1][1] = <<>>

\* C14: every entry of the flattened word alignment that belongs to a
\* sentence at or beyond the row's valid length (of the line memory or of the
\* word memory) is zero.
C14_WordAlignmentConfined ==
  (mechanism # <<>> /\ mechanism.called # <<>>) =>
    LET a == mechanism.args
        wa == mechanism.called[1].word_alignments[1]
        beyond(len, i, s) == len # <<>> /\ s >= len[1][i]
    IN \A i \in Batch : \A s \in Sentences : \A w \in Words :
         (\/ beyond(a.line_memory_sequence_length, i, s)
          \/ beyond(a.word_memory_sequence_length, i, s))
           => wa[i][s * MaxWords + w] = 0

\* Line memory of valid length 1 and no word lengths: row 1 has weight in
\* sentence 0's first slot and none in sentence 1's.
C14_Witness ==
  /\ mechanism # <<>> /\ mechanism.called # <<>>
  /\ mechanism.args.line_memory_sequence_length # <<>>
  /\ mechanism.args.line_memory_sequence_length[1][1] = 1
  /\ mechanism.args.word_memory_sequence_length = <<>>
  /\ mechanism.called[1].word_alignments[1][1][0] # 0
  /\ mechanism.called[1].word_alignments[1][1][MaxWords] = 0
  /\ mechanism.called[1].word_scores[1][1][0] # 0

\* C15: memory preparation zeroes the entries at sentence positions >= L[i]
\* and keeps the others, for the line memory and for the word memory; with no
\* lengths the memory is unchanged; preparing again changes nothing.
C15_MemoryPrepared ==
  (mechanism # <<>> /\ mechanism.built # <<>>) =>
    LET a == mechanism.args
        m == mechanism.built[1]
        ll == a.line_memory_sequence_length
        wl == a.word_memory_sequence_length
    IN /\ ll = <<>> => m.values = a.line_memory
       /\ ll # <<>> =>
            \A i \in Batch : \A s \in Sentences :
              m.values[i][s] = IF s >= ll[1][i] THEN 0 ELSE a.line_memory[i][s]
       /\ wl = <<>> => m.word_values = a.word_memory
       /\ wl # <<>> =>
            \A i \in Batch : \A s \in Sentences : \A w \in Words :
              m.word_values[i][s][w]
                = IF s >= wl[1][i] THEN 0 ELSE a.word_memory[i][s][w]
       /\ prepare_memory(a.line_memory, ll, 0) = m.values
       /\ prepare_memory(a.word_memory, wl, 1) = m.word_values
       /\ prepare_memory(m.values, ll, 0) = m.values
       /\ prepare_memory(m.word_values, wl, 1) = m.word_values

\* Row 1's line memory and word memory were cut to one sentence.
C15_Witness ==
  /\ mechanism # <<>> /\ mechanism.built # <<>>
  /\ mechanism.args.line_memory_sequence_length # <<>>
  /\ mechanism.args.word_memory_sequence_length # <<>>
  /\ mechanism.args.line_memory_sequence_length[1][1] = 1
  /\ mechanism.args.word_memory_sequence_length[1][1] = 1
  /\ mechanism.built[1].values[1][0] # 0
  /\ mechanism.built[1].values[1][1] = 0
  /\ mechanism.built[1].word_values[1][0][0] # 0
  /\ mechanism.built[1].word_values[1][1][0] = 0

\* C16: a non-positive valid length of the line memory or of the word
\* memory makes the mechanism fail before anything is computed: no memory is
\* masked, no score is computed and no alignment is produced.
C16_NonPositiveLengthRejected ==
  (/\ mechanism # <<>>
   /\ \E len \in {mechanism.args.line_memory_sequence_length,
                  mechanism.args.word_memory_sequence_length} :
        len # <<>> /\ \E i \in Batch : len[1][i] <= 0) =>
    /\ mechanism.built = <<>>
    /\ mechanism.called = <<>>

\* The words of the sentences from..Len(story) of a story, in reading order.
RECURSIVE WordsFrom(_, _)
WordsFrom(story, from) ==
  IF from > Len(story) THEN <<>> ELSE story[from] \o WordsFrom(story, from + 1)

\* The number of distinct out-of-vocabulary words that first appear before
\* the first appearance of w in the word sequence ws.
OovRank(ws, w) ==
  LET first(u) == CHOOSE k \in 1..Len(ws) :
                    ws[k] = u /\ \A j \in 1..(k - 1) : ws[j] # u
  IN Cardinality({u \in {ws[k] : k \in 1..Len(ws)} :
                    u \notin DOMAIN decoder_vocab /\ first(u) < first(w)})

\* The OOV ids of the kept sentences agree with the numbering of the
\* out-of-vocabulary words of the story from sentence `from` on.
OovIdsNumberedFrom(from) ==
  LET story == data.story
      v == data.vectorized[1]
      kept == Min2(v.memory_size, Len(story))
      ws == WordsFrom(story, from)
  IN \A p \in 1..kept :
       LET sentence == story[Len(story) - kept + p]
       IN \A j \in 1..Len(sentence) :
            LET w == sentence[j]
                id == v.OOV_ids[p][j]
            IN IF w \in DOMAIN decoder_vocab
               THEN id = decoder_vocab[w] /\ id < decode_vocab_size
               ELSE id = decode_vocab_size + OovRank(ws, w) /\ id >= decode_vocab_size

\* C20 as stated: out-of-vocabulary words get ids >= the vocabulary size,
\* numbered in order of first appearance within the sentences kept in the
\* example's memory.
C20_Original ==
  (data # <<>> /\ data.vectorized # <<>>) =>
    LET kept == Min2(data.vectorized[1].memory_size, Len(data.story))
    IN OovIdsNumberedFrom(Len(data.story) - kept + 1)

\* C20: out-of-vocabulary words get ids >= the vocabulary size, numbered in
\* order of first appearance within the whole story, the sentences dropped
\* from the memory included; a word has one id within the example.
C20_OovIdsByStoryOrder ==
  (data # <<>> /\ data.vectorized # <<>>) =>
    /\ OovIdsNumberedFrom(1)
    /\ data.vectorized[1].OOV_size
         = Cardinality({w \in {WordsFrom(data.story, 1)[k] :
                                 k \in 1..Len(WordsFrom(data.story, 1))} :
                          w \notin DOMAIN decoder_vocab})

\* The sentence ("y", "x") was dropped from a memory of one sentence, and the
\* kept sentence ("x") has the id of the second out-of-vocabulary word.
C20_Witness ==
  /\ data # <<>> /\ data.vectorized # <<>>
  /\ data.story = <<<<"y", "x">>, <<"x">>>>
  /\ data.vectorized[1].memory_size = 1
  /\ data.vectorized[1].OOV_ids = <<<<decode_vocab_size + 1, PAD_INDEX>>>>

\* C21: a clone has the supplied value in exactly the fields named by the
\* overrides and the original's value in every other field; making it leaves
\* the original state unchanged; a clone with no overrides equals the original.
C21_CloneFrame ==
  [][(wrapper # <<>> /\ wrapper.cloned = <<>> /\ wrapper'.cloned # <<>>) =>
       LET original == wrapper.state
           kwargs == wrapper'.cloned[1].kwargs
           new == wrapper'.cloned[1].result
       IN /\ DOMAIN new = DOMAIN original
          /\ \A f \in DOMAIN original :
               /\ f \in DOMAIN kwargs => new[f] = kwargs[f]
               /\ f \notin DOMAIN kwargs => new[f] = original[f]
          /\ wrapper'.state = original
          /\ DOMAIN kwargs = {} => new = original]_vars

\* After one call, a clone that overrides cell_state and time only.
C21_Witness ==
  /\ wrapper # <<>> /\ wrapper.cloned # <<>>
  /\ Len(wrapper.calls) = 1
  /\ DOMAIN wrapper.cloned[1].kwargs = {"cell_state", "time"}
  /\ wrapper.cloned[1].result.time = MaxIter + 1
  /\ wrapper.cloned[1].result.attention = wrapper.state.attention
  /\ wrapper.state.time = 1

\* C22: the copy gate emitted by a call is computed from the attention
\* produced by that call, the cell state carried into the call (not the one
\* the cell produced) and the cell input formed from the raw input and the
\* previous attention.
C22_CopyGateInputs ==
  (wrapper # <<>> /\ ~wrapper.output_attention) =>
    \A k \in 1..Len(wrapper.calls) :
      LET cl == wrapper.calls[k]
      IN ~cl.result.error =>
           \A i \in Batch :
             cl.result.output[1].p_gens[i]
               = <<cl.result.next_state[1].attention[i],
                   cl.before.cell_state[i],
                   <<cl.inputs[i], cl.before.attention[i]>>>>

\* A second call whose cell produced another state than it consumed: the
\* gate of row 1 holds the consumed one.
C22_Witness ==
  /\ wrapper # <<>> /\ ~wrapper.output_attention
  /\ Len(wrapper.calls) = 2 /\ ~wrapper.failed
  /\ wrapper.calls[2].before.cell_state[1] = EOS_INDEX
  /\ wrapper.calls[2].result.next_state[1].cell_state[1] = UNK_INDEX
  /\ wrapper.calls[2].result.output[1].p_gens[1]
       = <<UNK_INDEX, EOS_INDEX, <<EOS_INDEX, EOS_INDEX>>>>

\* The four TensorArrays carried by the loop: the two output buffers, the
\* attention buffer and the copy-gate buffer.
Buffers == <<outputs_ta.rnn_output, outputs_ta.sample_id, attention, p_gens>>

\* C23: the iteration with step index t writes one entry at index t of each
\* buffer, an index no earlier iteration wrote, and leaves the entries of the
\* earlier iterations as they are; after k iterations each buffer holds
\* exactly the entries 0..k-1.
C23_BuffersAppendOnly ==
  [][/\ pc' = "loop" =>
          \A b \in 1..Len(Buffers') : DOMAIN Buffers'[b].elems = 0..(time' - 1)
     /\ (pc = "loop" /\ pc' = "loop") =>
          /\ time' = time + 1
          /\ \A b \in 1..Len(Buffers) :
               /\ time \notin DOMAIN Buffers[b].elems
               /\ DOMAIN Buffers'[b].elems = DOMAIN Buffers[b].elems \cup {time}
               /\ \A t \in DOMAIN Buffers[b].elems :
                    Buffers'[b].elems[t] = Buffers[b].elems[t]
          /\ attention'.elems[time] = step_log'[time + 1].result.attention
          /\ p_gens'.elems[time] = step_log'[time + 1].result.p_gens]_vars

\* Three iterations have filled the indices 0, 1, 2 of the attention buffer
\* with the values of three steps for row 1.
C23_Witness ==
  /\ pc = "loop" /\ time = 3
  /\ DOMAIN attention.elems = {0, 1, 2}
  /\ DOMAIN p_gens.elems = {0, 1, 2}
  /\ DOMAIN outputs_ta.rnn_output.elems = {0, 1, 2}
  /\ attention.elems[0][1] = UNK_INDEX
  /\ attention.elems[1][1] = UNK_INDEX
  /\ attention.elems[2][1] = EOS_INDEX

\* The state the iteration logged at step_log[k] handed to the next one:
\* the decoder's next state, with the fields of the elements finished before
\* the iteration held when impute_finished is set.
HandedOn(k) ==
  LET s == step_log[k]
      d == s.result.next_state
      held(new, cur) == [i \in Batch |-> IF s.finished_before[i] THEN cur[i] ELSE new[i]]
  IN IF impute_finished
     THEN [cell_state |-> held(d.cell_state, s.state.cell_state),
           time |-> d.time,
           attention |-> held(d.attention, s.state.attention),
           alignments |-> held(d.alignments, s.state.alignments),
           alignment_history |-> d.alignment_history]
     ELSE d

\* C24: decoder.initialize is called exactly once, before any decoder.step;
\* the steps are called with the times 0, 1, 2, ... in order, the first with
\* the inputs and state of initialize, each later one with the inputs and
\* state the previous iteration produced.
C24_CallOrder ==
  /\ pc \in {"start", "error"} => init_log = <<>> /\ step_log = <<>>
  /\ Started => Len(init_log) = 1
  /\ \A k \in 1..Steps :
       /\ step_log[k].time = k - 1
       /\ k = 1 => /\ step_log[k].inputs = init_log[1].inputs
                   /\ step_log[k].state = init_log[1].state
       /\ k > 1 => /\ step_log[k].inputs = step_log[k - 1].result.next_inputs
                   /\ step_log[k].state = HandedOn(k - 1)
  /\ (Started /\ Steps > 0) => state = HandedOn(Steps) /\ time = Steps

\* Three steps, the third given what the second produced, which differs from
\* what the first was given.
C24_Witness ==
  /\ Started /\ Steps = 3
  /\ step_log[3].inputs = step_log[2].result.next_inputs
  /\ step_log[3].inputs # step_log[1].inputs
  /\ step_log[3].state # step_log[2].state
  /\ step_log[3].time = 2

\* C25: when the loop has exited, the number of iterations run (the final
\* time) is the maximum of sequence_lengths over the batch, and it is 0
\* exactly when every element was finished before the first iteration.
C25_TimeIsMaxLength ==
  Done =>
    /\ time = SetMax({sequence_lengths[i] : i \in Batch})
    /\ result[1].final_sequence_lengths = sequence_lengths
    /\ time = Steps
    /\ time = 0 <=>
         \A i \in Batch :
           \/ init_log[1].finished[i]
           \/ HasMax(maximum_iterations) /\ maximum_iterations[1] <= 0

\* The loop exited after three iterations with elements of lengths 1 and 3.
C25_Witness ==
  /\ Done /\ time = 3
  /\ sequence_lengths[1] = 1
  /\ \E i \in Batch : sequence_lengths[i] = 3

\* C26: decoding from zero_state cloned with a cell state, the time of the
\* wrapper state given to each step is the loop's time, with impute_finished
\* on or off; the alignment history therefore has the indices of the output
\* buffer, and its entry at an index is the alignment of the step that wrote
\* the output at that index.
C26_StateTimeIsLoopTime ==
  /\ pc = "loop" => state.time = time
  /\ \A k \in 1..Steps : step_log[k].state.time = step_log[k].time
  /\ (Started /\ alignment_history) =>
       /\ DOMAIN state.alignment_history[1].elems = DOMAIN outputs_ta.rnn_output.elems
       /\ \A t \in DOMAIN outputs_ta.rnn_output.elems :
            /\ state.alignment_history[1].elems[t] = attention.elems[t]
            /\ state.alignment_history[1].elems[t]
                 = step_log[t + 1].result.next_state.alignments

\* With impute_finished and the history on, two steps ran after row 1 had
\* finished, and the history has the indices 0, 1, 2 of the output buffer.
C26_Witness ==
  /\ pc = "loop" /\ impute_finished /\ alignment_history
  /\ time = 3 /\ state.time = 3
  /\ step_log[2].finished_before[1]
  /\ DOMAIN state.alignment_history[1].elems = {0, 1, 2}
  /\ DOMAIN outputs_ta.rnn_output.elems = {0, 1, 2}

\* C27: with output_attention set as well as with it unset, BasicDecoder.step
\* obtains (cell_output, attention, copy gate) from the wrapper and returns
\* its six-element result.
C27_StepInBothModes ==
  (/\ wrapper # <<>> /\ wrapper.stepped # <<>>
   /\ \A j \in DOMAIN wrapper.memory_batch : wrapper.memory_batch[j] = BatchSize) =>
    LET s == wrapper.stepped[1]
    IN /\ s.outcome.raised = "none"
       /\ s.outcome.result # <<>>
       /\ DOMAIN s.outcome.result[1]
            = {"outputs", "attention", "p_gens", "next_state", "next_inputs", "finished"}
       /\ s.outcome.result[1].outputs.rnn_output = s.cell

\* C28: in the zero state and in the state after a call, the alignments field
\* has, per batch row, the width that state_size declares for alignments.
C28_AlignmentsWidthDeclared ==
  (mechanism # <<>> /\ mechanism.zero # <<>>) =>
    LET declared == state_size_alignments(mechanism.built[1])
    IN /\ \A i \in Batch : Cardinality(DOMAIN mechanism.zero[1][i]) = declared
       /\ mechanism.called # <<>> =>
            \A i \in Batch :
              Cardinality(DOMAIN mechanism.called[1].word_alignments[1][i]) = declared


\* The ids of the words of a sentence, padded with zeros to sentence_size.
SentenceIds(sentence) ==
  [j \in 1..sentence_size |->
     IF j > Len(sentence) THEN 0
     ELSE IF sentence[j] \in DOMAIN word_idx THEN word_idx[sentence[j]]
     ELSE UNK_INDEX]

\* The index of the first example of the group of batch_size examples that
\* example e lies in.
GroupFirst(e) == ((e - 1) \div data.batch_size) * data.batch_size + 1

\* The number of rows of the group of example e: max(1, min(max_memory_size,
\* length of the first story of the group)).
GroupRows(e) ==
  LET first == Len(data.dataset[1].items[GroupFirst(e)].story)
  IN IF data.max_memory_size < first
     THEN (IF data.max_memory_size < 1 THEN 1 ELSE data.max_memory_size)
     ELSE (IF first < 1 THEN 1 ELSE first)

\* C30: after Data is constructed, within every group of batch_size
\* consecutive examples in the stored order the story array, the size vector
\* and the out-of-vocabulary id array of every example have the same number
\* of rows, max(1, min(max_memory_size, length of the group's first story));
\* a story with more sentences than that keeps its most recent sentences
\* only, in their original order.
C30_GroupRows ==
  (data # <<>> /\ data.dataset # <<>>) =>
    LET d == data.dataset[1]
    IN \A e \in 1..Len(d.items) :
         LET m == GroupRows(e)
             story == d.items[e].story
             v == d.stories[e]
         IN /\ Len(v.S) = m
            /\ Len(v.SZ) = m
            /\ Len(v.OOV_ids) = m
            /\ Len(story) > m =>
                 \A k \in 1..m :
                   /\ v.S[k] = SentenceIds(story[Len(story) - m + k])
                   /\ v.SZ[k] = Len(story[Len(story) - m + k])

\* A group of two examples: the first story has more sentences than the
\* group's row count and is cut, the second has fewer and is padded.
C30_Witness ==
  /\ data # <<>> /\ data.dataset # <<>>
  /\ data.batch_size = 2
  /\ Len(data.dataset[1].items) = 2
  /\ Len(data.dataset[1].items[1].story) > Len(data.dataset[1].stories[1].S)
  /\ Len(data.dataset[1].items[2].story) < Len(data.dataset[1].stories[2].S)
  /\ Len(data.dataset[1].stories[1].S) = Len(data.dataset[1].stories[2].S)


\* C29: constructing a Batch from a Data object, with word_drop True or
\* False and any unk_size, leaves the stories and queries of the Data object
\* as they were when the Data object was constructed.
C29_DataUnchangedByBatch ==
  (data # <<>> /\ data.dataset # <<>> /\ data.batches # <<>>) =>
    /\ data.dataset[1].stories = data.original[1].stories
    /\ data.dataset[1].queries = data.original[1].queries

====
